---- MODULE Spec2Model ----
(***************************************************************************)
(* A model of utils.py: the chat transport (chat_request) and its four     *)
(* wrappers (call_rag, call_tavily_web_search, assess_confidence,          *)
(* synthesize_information).                                                *)
(*                                                                         *)
(* Text is modelled as a sequence of lexemes (a Python str is the          *)
(* concatenation of its lexemes); the delimiters the code searches for     *)
(* are themselves sequences of lexemes, so that str.split, str.rsplit,     *)
(* str.startswith, `in`, json.loads and float are computed here the way    *)
(* Python computes them, on text in which the delimiters may occur         *)
(* anywhere.  Scores are kept in hundredths (0.7 is 70).                   *)
(***************************************************************************)
EXTENDS Integers, Sequences, FiniteSets, TLC

\* ------------------------------------------------------------ lexemes

TB    == "TextBlock("
TEQ   == "text="
SQ    == "'"
DQ    == "\""
COMMA == ","
RP    == ")"
LB    == "{"
RB    == "}"
LSQ   == "["
RSQ   == "]"
SP    == " "
KEY   == "\"confidence_score\":"
RKEY  == "\"reasoning\":"
NULL  == "null"

\* The delimiters of the source, as lexeme sequences.
MarkerAssess == <<TB, TEQ>>       \* 'TextBlock(text='   (line 122)
MarkerSynth  == <<TB>>            \* 'TextBlock('        (line 179)
TextQuote    == <<TEQ, SQ>>       \* "text='"            (lines 123, 180)
QuoteComma   == <<SQ, COMMA>>     \* "',"                (line 123)
QuoteParen   == <<SQ, RP>>        \* "')"                (line 180)
ScoreKey     == <<KEY>>           \* '"confidence_score":' (lines 134, 135)
Comma        == <<COMMA>>         \* ','                 (line 135)

Numerals == {"0.85", "0.5", "0.7", "0.71"}

\* The value of a numeral, in hundredths.
NumVal(t) ==
  CASE t = "0.85" -> 85
    [] t = "0.5"  -> 50
    [] t = "0.7"  -> 70
    [] t = "0.71" -> 71
    [] OTHER      -> 0

\* ------------------------------------------------------ Python values

\* One shape for every Python value the code handles.
Val(t, s, items, key, b) ==
  [t |-> t, s |-> s, items |-> items, key |-> key, b |-> b]

PyStr(s)      == Val("str", s, <<>>, "", FALSE)
PyNone        == Val("none", <<>>, <<>>, "", FALSE)
PyBool(b)     == Val("bool", <<>>, <<>>, "", b)
PyList(items) == Val("list", <<>>, items, "", FALSE)
\* A dict with the single entry key: s.
PyDict(key, s) == Val("dict", s, <<>>, key, FALSE)

\* The outcome of an expression: a value, or a raised exception.
Ok(v)            == [ok |-> TRUE, v |-> v, exc |-> "", status |-> 0]
Raise(e)         == [ok |-> FALSE, v |-> PyNone, exc |-> e, status |-> 0]
RaiseHTTP(code)  == [ok |-> FALSE, v |-> PyNone, exc |-> "HTTPError", status |-> code]

\* str(v)
Str(v) ==
  CASE v.t = "str"  -> v.s
    [] v.t = "none" -> <<"None">>
    [] v.t = "bool" -> IF v.b THEN <<"True">> ELSE <<"False">>
    [] v.t = "dict" -> <<LB, SQ, v.key, SQ, ":", SP, SQ>> \o v.s \o <<SQ, RB>>
    [] OTHER        -> <<LSQ, "...", RSQ>>

\* ----------------------------------------------------- str operations

\* str.find(sep) + 1: the first place sep occurs in s, 0 when it does not.
Find(s, sep) ==
  LET hits == {i \in 1..(Len(s) - Len(sep) + 1) : SubSeq(s, i, i + Len(sep) - 1) = sep}
  IN  IF hits = {} THEN 0 ELSE CHOOSE i \in hits : \A j \in hits : i <= j

\* str.rfind(sep) + 1
RFind(s, sep) ==
  LET hits == {i \in 1..(Len(s) - Len(sep) + 1) : SubSeq(s, i, i + Len(sep) - 1) = sep}
  IN  IF hits = {} THEN 0 ELSE CHOOSE i \in hits : \A j \in hits : i >= j

\* sep in s
Contains(s, sep) == Find(s, sep) # 0

\* s.startswith(sep)
StartsWith(s, sep) == Len(s) >= Len(sep) /\ SubSeq(s, 1, Len(sep)) = sep

\* s.split(sep)
RECURSIVE Split(_, _)
Split(s, sep) ==
  LET i == Find(s, sep)
  IN  IF i = 0 THEN <<s>>
      ELSE <<SubSeq(s, 1, i - 1)>> \o Split(SubSeq(s, i + Len(sep), Len(s)), sep)

\* s.split(sep, 1)
Split1(s, sep) ==
  LET i == Find(s, sep)
  IN  IF i = 0 THEN <<s>>
      ELSE <<SubSeq(s, 1, i - 1), SubSeq(s, i + Len(sep), Len(s))>>

\* s.rsplit(sep, 1)
RSplit1(s, sep) ==
  LET i == RFind(s, sep)
  IN  IF i = 0 THEN <<s>>
      ELSE <<SubSeq(s, 1, i - 1), SubSeq(s, i + Len(sep), Len(s))>>

\* s.strip()
RECURSIVE Strip(_)
Strip(s) ==
  IF s = <<>> THEN s
  ELSE IF Head(s) = SP THEN Strip(Tail(s))
  ELSE IF s[Len(s)] = SP THEN Strip(SubSeq(s, 1, Len(s) - 1))
  ELSE s

\* float(s) of a str: the numeral's value, or ValueError.
FloatOfStr(s) ==
  LET t == Strip(s)
  IN  IF Len(t) = 1 /\ t[1] \in Numerals
      THEN [ok |-> TRUE, n |-> NumVal(t[1]), exc |-> ""]
      ELSE [ok |-> FALSE, n |-> 0, exc |-> "ValueError"]

\* ---------------------------------------------------------- json.loads

\* A parsed JSON value.  For an object, has/sk/sn/ss describe the value
\* stored under "confidence_score" (the last one, as in a Python dict).
JVal(kind, n, str, has, sk, sn, ss, next) ==
  [ok |-> TRUE, kind |-> kind, n |-> n, str |-> str, has |-> has,
   sk |-> sk, sn |-> sn, ss |-> ss, next |-> next]
JFail ==
  [ok |-> FALSE, kind |-> "", n |-> 0, str |-> <<>>, has |-> FALSE,
   sk |-> "", sn |-> 0, ss |-> <<>>, next |-> 0]

RECURSIVE SkipWs(_, _)
SkipWs(s, i) == IF i <= Len(s) /\ s[i] = SP THEN SkipWs(s, i + 1) ELSE i

\* The closing quote of the string opened at i, 0 when it is not closed by
\* a quote of its own (a key lexeme starts with a quote and would close it).
StringEnd(s, i) ==
  LET ends == {j \in (i + 1)..Len(s) : s[j] \in {DQ, KEY, RKEY}}
      j0   == CHOOSE j \in ends : \A k \in ends : j <= k
  IN  IF ends = {} THEN 0 ELSE IF s[j0] = DQ THEN j0 ELSE 0

RECURSIVE ParseValue(_, _), ParseMembers(_, _, _), ParseElems(_, _)
ParseValue(s, i) ==
  IF i > Len(s) THEN JFail
  ELSE IF s[i] \in Numerals
    THEN JVal("number", NumVal(s[i]), <<>>, FALSE, "", 0, <<>>, i + 1)
  ELSE IF s[i] = NULL
    THEN JVal("null", 0, <<>>, FALSE, "", 0, <<>>, i + 1)
  ELSE IF s[i] = DQ
    THEN LET j == StringEnd(s, i)
         IN  IF j = 0 THEN JFail
             ELSE JVal("string", 0, SubSeq(s, i + 1, j - 1), FALSE, "", 0, <<>>, j + 1)
  ELSE IF s[i] = LB
    THEN LET j == SkipWs(s, i + 1)
         IN  IF j <= Len(s) /\ s[j] = RB
             THEN JVal("object", 0, <<>>, FALSE, "", 0, <<>>, j + 1)
             ELSE ParseMembers(s, j, JVal("object", 0, <<>>, FALSE, "", 0, <<>>, 0))
  ELSE IF s[i] = LSQ
    THEN LET j == SkipWs(s, i + 1)
         IN  IF j <= Len(s) /\ s[j] = RSQ
             THEN JVal("array", 0, <<>>, FALSE, "", 0, <<>>, j + 1)
             ELSE ParseElems(s, j)
  ELSE JFail

\* The members of an object from i on; acc is the object read so far.
ParseMembers(s, i, acc) ==
  IF i > Len(s) \/ s[i] \notin {KEY, RKEY} THEN JFail
  ELSE LET v == ParseValue(s, SkipWs(s, i + 1))
       IN  IF ~v.ok THEN JFail
           ELSE LET acc2 == IF s[i] = KEY
                            THEN [acc EXCEPT !.has = TRUE, !.sk = v.kind,
                                             !.sn = v.n, !.ss = v.str]
                            ELSE acc
                    k    == SkipWs(s, v.next)
                IN  IF k > Len(s) THEN JFail
                    ELSE IF s[k] = COMMA THEN ParseMembers(s, SkipWs(s, k + 1), acc2)
                    ELSE IF s[k] = RB THEN [acc2 EXCEPT !.next = k + 1]
                    ELSE JFail

\* The elements of an array from i on.
ParseElems(s, i) ==
  LET v == ParseValue(s, i)
  IN  IF ~v.ok THEN JFail
      ELSE LET k == SkipWs(s, v.next)
           IN  IF k > Len(s) THEN JFail
               ELSE IF s[k] = COMMA THEN ParseElems(s, SkipWs(s, k + 1))
               ELSE IF s[k] = RSQ
                 THEN JVal("array", 0, <<>>, FALSE, "", 0, <<>>, k + 1)
               ELSE JFail

\* json.loads(s) of a str: the value, or JSONDecodeError (ok = FALSE).
JsonLoads(s) ==
  LET v == ParseValue(s, SkipWs(s, 1))
  IN  IF v.ok /\ SkipWs(s, v.next) = Len(s) + 1 THEN v ELSE JFail

\* ------------------------------------------------- program constants

Threshold        == 70     \* confidence_score > 0.7
Temperature      == 70     \* "temperature": 0.7
DefaultMaxTokens == 512    \* chat_request(..., max_tokens=512)
WrapperMaxTokens == 512    \* the wrappers pass max_tokens=512

ProviderHost == <<"alphagpt.alphafmc.com">>
WrapperModel == "gpt-4-turbo"

MockRag       == PyStr(<<"Mock response: This is a dry run response.">>)
MockSearch    == PyStr(<<"Mock web search response: This is a dry run response.">>)
MockAssess    == PyBool(TRUE)
MockSynthesis == PyStr(<<"Mock synthesis: This is a dry run synthesis.">>)
EmptyStr      == PyStr(<<>>)
ErrorText     == PyStr(<<"Error synthesizing information">>)

\* ------------------------------------------------------- chat_request

\* "alphagpt.alphafmc.com" in OPEN_UI_CHAT_ENDPOINT: a substring test on
\* the configured endpoint, TypeError when the variable is unset (None).
EndpointTest(ep) ==
  IF ep.t # "str" THEN Raise("TypeError")
  ELSE Ok(PyBool(Contains(ep.s, ProviderHost)))

Message(role, content) == [role |-> role, content |-> content]

NoPayload ==
  [keys |-> {}, model |-> "", messages |-> <<>>, max_tokens |-> 0, temperature |-> 0]

\* The payload dict: keys is the set of its keys.
BuildPayload_standard_only(minimal, model, system_prompt, user_message, max_tokens) ==
  [keys |-> {"model", "messages", "max_tokens", "temperature"},
   model |-> model,
   messages |-> <<Message("system", system_prompt), Message("user", user_message)>>,
   max_tokens |-> max_tokens,
   temperature |-> Temperature]

BuildPayload(minimal, model, system_prompt, user_message, max_tokens) ==
  IF minimal
  THEN [keys |-> {"model", "messages"},
        model |-> model,
        messages |-> <<Message("user", user_message)>>,
        max_tokens |-> 0,
        temperature |-> 0]
  ELSE [keys |-> {"model", "messages", "max_tokens", "temperature"},
        model |-> model,
        messages |-> <<Message("system", system_prompt), Message("user", user_message)>>,
        max_tokens |-> max_tokens,
        temperature |-> Temperature]

\* An HTTP response: the status and the body.  The shape of the body says
\* how far data["choices"][0]["message"]["content"] gets.
Resp(status, shape, content) == [status |-> status, shape |-> shape, content |-> content]
NoResp == Resp(0, "", PyNone)
\* requests.post itself raised: there is no response.
Unreachable == Resp(0, "unreachable", PyNone)

MalformedShapes ==
  {"notjson", "toplist", "nochoices", "emptychoices", "nomessage", "nocontent"}

\* response.raise_for_status(): requests raises HTTPError for a status of
\* 400..599 and for no other.
RaisesForStatus(status) == 400 <= status /\ status <= 599

\* response.json() and data["choices"][0]["message"]["content"]
ExtractContent(r) ==
  CASE r.shape = "ok"           -> Ok(r.content)
    [] r.shape = "notjson"      -> Raise("JSONDecodeError")
    [] r.shape = "toplist"      -> Raise("TypeError")
    [] r.shape = "nochoices"    -> Raise("KeyError")
    [] r.shape = "emptychoices" -> Raise("IndexError")
    [] r.shape = "nomessage"    -> Raise("KeyError")
    [] r.shape = "nocontent"    -> Raise("KeyError")
    [] OTHER                    -> Raise("JSONDecodeError")

ChatOutcome_no_status_check(r) ==
  IF r = Unreachable THEN Raise("ConnectionError") ELSE ExtractContent(r)

\* What chat_request does once requests.post has returned or raised.
ChatOutcome(r) ==
  IF r = Unreachable THEN Raise("ConnectionError")
  ELSE IF RaisesForStatus(r.status) THEN RaiseHTTP(r.status)
  ELSE ExtractContent(r)

\* ------------------------------------------------ exception handling

\* try: ... except Exception: return placeholder
CatchException_http_only(o, placeholder) ==
  IF o.ok \/ o.exc # "HTTPError" THEN o ELSE Ok(placeholder)

CatchException(o, placeholder) == IF o.ok THEN o ELSE Ok(placeholder)

\* --------------------------------------------------- wrapper stripping

\* x = x[0]["content"] if isinstance(x[0], dict) and "content" in x[0]
\*     else str(x[0]), when x is a list
ListUnwrap(v) ==
  IF v.t # "list" THEN Ok(v)
  ELSE IF v.items = <<>> THEN Raise("IndexError")
  ELSE LET e == v.items[1]
       IN  IF e.t = "dict" /\ e.key = "content" THEN Ok(PyStr(e.s))
           ELSE Ok(PyStr(Str(e)))

\* assess_confidence: the cleaned evaluation.
AssessClean(v) ==
  LET u == ListUnwrap(v)
  IN  IF ~u.ok THEN u
      ELSE IF Contains(Str(u.v), MarkerAssess)
        THEN LET parts == Split(Str(u.v), TextQuote)
             IN  IF Len(parts) < 2 THEN Raise("IndexError")
                 ELSE Ok(PyStr(Split(parts[2], QuoteComma)[1]))
      ELSE u

\* synthesize_information: the cleaned response.
SynthClean(v) ==
  LET u == ListUnwrap(v)
  IN  IF ~u.ok THEN u
      ELSE IF u.v.t # "str" THEN Raise("AttributeError")
      ELSE IF StartsWith(u.v.s, MarkerSynth)
        THEN LET parts == Split1(u.v.s, TextQuote)
             IN  IF Len(parts) < 2 THEN Raise("IndexError")
                 ELSE Ok(PyStr(RSplit1(parts[2], QuoteParen)[1]))
      ELSE u

\* ------------------------------------------------- assess_confidence

\* confidence_score > 0.7
AboveThreshold(n) == n > Threshold

\* parsed = json.loads(evaluation); float(parsed["confidence_score"]) > 0.7
AssessParse(e) ==
  IF e.t # "str" THEN Raise("TypeError")
  ELSE LET p == JsonLoads(e.s)
       IN  IF ~p.ok THEN Raise("JSONDecodeError")
           ELSE IF p.kind # "object" THEN Raise("TypeError")
           ELSE IF ~p.has THEN Raise("KeyError")
           ELSE IF p.sk = "number" THEN Ok(PyBool(AboveThreshold(p.sn)))
           ELSE IF p.sk = "string"
             THEN LET f == FloatOfStr(p.ss)
                  IN  IF f.ok THEN Ok(PyBool(AboveThreshold(f.n)))
                      ELSE Raise("ValueError")
           ELSE Raise("TypeError")

\* The handler of (json.JSONDecodeError, KeyError), and the return False
\* that follows it.
AssessFallback(e) ==
  IF Contains(e.s, ScoreKey)
  THEN LET score_text == Strip(Split(Split(e.s, ScoreKey)[2], Comma)[1])
           f          == FloatOfStr(score_text)
       IN  IF f.ok THEN Ok(PyBool(AboveThreshold(f.n))) ELSE Raise("ValueError")
  ELSE Ok(PyBool(FALSE))

\* The inner try statement and what follows it.
AssessScore(e) ==
  LET r == AssessParse(e)
  IN  IF r.ok THEN r
      ELSE IF r.exc \in {"JSONDecodeError", "KeyError"} THEN AssessFallback(e)
      ELSE r

\* The body of the outer try statement, from chat_request's outcome on.
AssessBody(o) ==
  IF ~o.ok THEN o
  ELSE LET c == AssessClean(o.v)
       IN  IF ~c.ok THEN c ELSE AssessScore(c.v)

\* assess_confidence, from chat_request's outcome on.
AssessResult(o) == CatchException(AssessBody(o), PyBool(FALSE))

\* ---------------------------------------------- the other wrappers

\* The body of synthesize_information's try statement.
SynthBody(o) == IF ~o.ok THEN o ELSE SynthClean(o.v)

SynthResult_strip_outside_try(o) ==
  LET r == CatchException(o, ErrorText)
  IN  IF o.ok THEN SynthClean(r.v) ELSE r

\* synthesize_information, from chat_request's outcome on.
SynthResult(o) == CatchException(SynthBody(o), ErrorText)

\* call_rag, from chat_request's outcome on.
RagResult(o) == CatchException(o, EmptyStr)

\* call_tavily_web_search, from the provider's outcome on.
SearchResult(o) == CatchException(o, EmptyStr)

\* ------------------------------------------------------------ inputs

MaxCalls == 2      \* invocations a caller makes, one after the other

Callers == {"t1", "t2"}

\* OPEN_UI_CHAT_ENDPOINT: the provider, another host, another host whose
\* path names the provider, and unset.
Endpoints ==
  {PyStr(<<"https://", "alphagpt.alphafmc.com", "/api/chat/completions">>),
   PyStr(<<"https://", "openui.example.com", "/api/chat/completions">>),
   PyStr(<<"https://", "proxy.example.com", "/", "alphagpt.alphafmc.com", "/chat">>),
   PyNone}

ChatModels    == {"gpt-4-turbo", "other-model"}
ChatMaxTokens == {DefaultMaxTokens, 64}
Queries       == {"q"}
Contexts      == {"ctx"}

Args(model, system_prompt, user_message, max_tokens) ==
  [model |-> model, system_prompt |-> system_prompt,
   user_message |-> user_message, max_tokens |-> max_tokens]
NoArgs == Args("", <<>>, <<>>, 0)

\* The prompts the wrappers build (f-strings around their arguments).
RagPrompt(context)   == <<"You are a helpful assistant ... Context:", context>>
AssessPrompt         == <<"You are a confidence assessment expert ...">>
AssessMessage(r)     == <<"Response to evaluate: ", r>>
SynthPrompt          == <<"Synthesize the internal knowledge and web search results ...">>
SynthMessage(i, w)   == <<"Internal Knowledge: ", i, "\n\nWeb Results: ", w>>

\* Model text: JSON objects with the score first or last.
Reasons ==
  {<<"x">>,
   <<"saw", SP, TB, TEQ, "...">>,
   <<SQ, "ok", SQ, COMMA, SP, "fine">>,
   <<"a", COMMA, SP, "b">>}

ScoreFirst(num, reason) ==
  <<LB, KEY, SP, num, COMMA, SP, RKEY, SP, DQ>> \o reason \o <<DQ, RB>>
ScoreLast(num, reason) ==
  <<LB, RKEY, SP, DQ>> \o reason \o <<DQ, COMMA, SP, KEY, SP, num, RB>>

Objects ==
  {ScoreFirst(n, r) : n \in Numerals, r \in Reasons}
    \cup {ScoreLast(n, r) : n \in Numerals, r \in Reasons}

\* TextBlock(text='...', type='text'), TextBlock(text='...'), and the
\* former after other text.
Wrap(x)      == <<TB, TEQ, SQ>> \o x \o <<SQ, COMMA, SP, "type=", SQ, "text", SQ, RP>>
WrapShort(x) == <<TB, TEQ, SQ>> \o x \o <<SQ, RP>>
WrapMid(x)   == <<"[", "...", SP>> \o Wrap(x)

JsonTexts ==
  Objects \cup
  {<<LB, RKEY, SP, DQ, "x", DQ, RB>>,
   <<LB, RB>>,
   <<LB, KEY, SP, DQ, "0.85", DQ, RB>>,
   <<LB, KEY, SP, DQ, "high", DQ, RB>>,
   <<LB, KEY, SP, NULL, RB>>,
   <<LB, KEY, SP, LSQ, "0.85", RSQ, RB>>,
   <<LB, KEY, SP, "0.5", COMMA, SP, KEY, SP, "0.85", RB>>,
   <<LB, RKEY, SP, LB, KEY, SP, "0.85", COMMA, RKEY, DQ, "x", DQ, RB, RB>>,
   <<LB, RKEY, SP, LB, KEY, SP, "0.85", RB, RB>>,
   <<"0.5">>,
   <<"0.85">>,
   <<LSQ, "0.85", RSQ>>,
   <<DQ, "x", DQ>>,
   <<NULL>>,
   <<SP, LB, KEY, "0.85", RB, SP>>}

WrappedTexts ==
  {Wrap(x) : x \in Objects} \cup {WrapShort(x) : x \in Objects}
    \cup {WrapMid(x) : x \in Objects}
    \cup {Wrap(<<"Key", SP, "Finding:", SP, "it", SQ, "s", SP, "fine">>),
          WrapShort(<<"Key", SP, "Finding">>),
          <<TB, "type=", SQ, "text", SQ, RP>>,
          <<TB, TEQ, DQ, "x", DQ, RP>>,
          <<TB, TEQ, SQ, "x">>,
          <<"see", SP, TB, TEQ, "...">>}

ProseTexts ==
  {<<"Here", SP, "is", SP, "my", SP, "evaluation:", SP>> \o x : x \in Objects}
    \cup {<<KEY, SP, n, COMMA, SP, RKEY, SP, "x">> : n \in Numerals}
    \cup {<<KEY, n>> : n \in Numerals}
    \cup {<<LB, KEY, SP, n, COMMA, RB>> : n \in Numerals}
    \cup {<<LB, KEY, SP, n, RB, SP, "done">> : n \in Numerals}
    \cup {<<KEY, SP, "high", COMMA>>,
          <<KEY>>,
          <<KEY, COMMA, "0.85">>,
          <<KEY, "0.5", COMMA, KEY, "0.85", COMMA>>,
          <<"maybe">>,
          <<"Key", SP, "Finding", COMMA, SP, "Details">>,
          <<>>}

OddValues ==
  {PyNone,
   PyDict("content", ScoreFirst("0.85", <<"x">>)),
   PyList(<<>>),
   PyList(<<PyNone>>),
   PyList(<<PyStr(ScoreFirst("0.85", <<"x">>))>>),
   PyList(<<PyStr(Wrap(ScoreFirst("0.85", <<"x">>)))>>),
   PyList(<<PyDict("content", ScoreFirst("0.85", <<"x">>))>>),
   PyList(<<PyDict("content", ScoreLast("0.5", <<"x">>)), PyNone>>),
   PyList(<<PyDict("content", Wrap(ScoreLast("0.85", <<"x">>)))>>),
   PyList(<<PyDict("content", WrapMid(ScoreFirst("0.71", <<"x">>)))>>),
   PyList(<<PyDict("text", ScoreFirst("0.85", <<"x">>))>>),
   PyList(<<PyDict("text", <<"x">>)>>)}

\* What the chat endpoint may answer, by the kind of upstream behind it.
Profiles == {"json", "wrapped", "prose", "odd", "terse"}

Contents(p) ==
  CASE p = "json"    -> {PyStr(x) : x \in JsonTexts}
    [] p = "wrapped" -> {PyStr(x) : x \in WrappedTexts}
    [] p = "prose"   -> {PyStr(x) : x \in ProseTexts}
    [] p = "odd"     -> OddValues
    [] OTHER         -> {PyStr(<<"hello">>)}

PassingStatuses(p) == IF p = "terse" THEN {200} ELSE {200, 201, 304}
FailingStatuses(p) == IF p = "terse" THEN {503} ELSE {404, 503}
BadShapes(p)       == IF p = "terse" THEN {"notjson"} ELSE MalformedShapes

Responses(p) ==
  {Resp(st, "ok", v) : st \in PassingStatuses(p), v \in Contents(p)}
    \cup {Resp(st, sh, PyNone) : st \in PassingStatuses(p) \cup FailingStatuses(p),
                                 sh \in BadShapes(p)}
    \cup {Resp(st, "ok", PyStr(<<"hello">>)) : st \in FailingStatuses(p)}

\* What the search provider may do.
SearchOutcomes ==
  {Ok(PyStr(<<"web", SP, "context">>)), Ok(EmptyStr),
   Raise("ConnectionError"), Raise("InvalidAPIKeyError")}

\* ------------------------------------------------------------- state

VARIABLES
  endpoint,   \* OPEN_UI_CHAT_ENDPOINT
  profile,    \* the upstream behind the endpoint
  active,     \* the callers there are
  pc,         \* where each caller's invocation stands
  op,         \* the operation invoked
  dry,        \* whether it was invoked with dry_run=True
  args,       \* chat_request's arguments in this invocation
  payload,    \* the payload posted in this invocation
  posts,      \* requests.post calls of this invocation
  searches,   \* get_search_context calls of this invocation
  resp,       \* the HTTP response received
  sres,       \* the search provider's outcome
  result,     \* what the operation returned or raised
  calls       \* invocations made so far

env    == <<endpoint, profile, active>>
vars   == <<endpoint, profile, active, pc, op, dry, args, payload, posts,
            searches, resp, sres, result, calls>>

NoResult == [ok |-> FALSE, v |-> PyNone, exc |-> "", status |-> 0]

Blank ==
  /\ pc       = [c \in Callers |-> "idle"]
  /\ op       = [c \in Callers |-> ""]
  /\ dry      = [c \in Callers |-> FALSE]
  /\ args     = [c \in Callers |-> NoArgs]
  /\ payload  = [c \in Callers |-> NoPayload]
  /\ posts    = [c \in Callers |-> 0]
  /\ searches = [c \in Callers |-> 0]
  /\ resp     = [c \in Callers |-> NoResp]
  /\ sres     = [c \in Callers |-> NoResult]
  /\ result   = [c \in Callers |-> NoResult]
  /\ calls    = [c \in Callers |-> 0]

\* One caller, any upstream.
Init ==
  /\ endpoint \in Endpoints
  /\ profile \in Profiles
  /\ active = {"t1"}
  /\ Blank

\* Two callers at once.
ConcInit ==
  /\ endpoint \in Endpoints
  /\ profile = "terse"
  /\ active = Callers
  /\ Blank

\* ----------------------------------------------------------- actions

Idle(c) == c \in active /\ pc[c] = "idle" /\ calls[c] < MaxCalls

Enter(c, o, d, a) ==
  /\ op'    = [op EXCEPT ![c] = o]
  /\ dry'   = [dry EXCEPT ![c] = d]
  /\ args'  = [args EXCEPT ![c] = a]
  /\ calls' = [calls EXCEPT ![c] = @ + 1]

Finish(c, r) ==
  /\ pc'     = [pc EXCEPT ![c] = "done"]
  /\ result' = [result EXCEPT ![c] = r]

\* requests.post(OPEN_UI_CHAT_ENDPOINT, headers=headers, json=payload)
Send(c, p) ==
  /\ pc'      = [pc EXCEPT ![c] = "posted"]
  /\ payload' = [payload EXCEPT ![c] = p]
  /\ posts'   = [posts EXCEPT ![c] = @ + 1]

\* chat_request, called directly.  It has no dry_run parameter: a call
\* that passes one fails to bind its arguments.
chat_request(c, model, system_prompt, user_message, max_tokens, passes_dry_run) ==
  /\ Idle(c)
  /\ Enter(c, "chat_request", passes_dry_run,
           Args(model, system_prompt, user_message, max_tokens))
  /\ IF passes_dry_run
     THEN Finish(c, Raise("TypeError")) /\ UNCHANGED <<payload, posts>>
     ELSE LET t == EndpointTest(endpoint)
          IN  IF ~t.ok
              THEN Finish(c, t) /\ UNCHANGED <<payload, posts>>
              ELSE /\ Send(c, BuildPayload(t.v.b, model, system_prompt,
                                           user_message, max_tokens))
                   /\ UNCHANGED result
  /\ UNCHANGED <<env, searches, resp, sres>>

\* call_rag without its dry-run branch.
call_rag_ignores_dry_run(c, query, context, dry_run) ==
  /\ Idle(c)
  /\ Enter(c, "call_rag", dry_run,
           Args(WrapperModel, RagPrompt(context), <<query>>, WrapperMaxTokens))
  /\ LET t == EndpointTest(endpoint)
     IN  IF ~t.ok
         THEN Finish(c, RagResult(t)) /\ UNCHANGED <<payload, posts>>
         ELSE /\ Send(c, BuildPayload(t.v.b, WrapperModel, RagPrompt(context),
                                      <<query>>, WrapperMaxTokens))
              /\ UNCHANGED result
  /\ UNCHANGED <<env, searches, resp, sres>>

call_rag(c, query, context, dry_run) ==
  /\ Idle(c)
  /\ Enter(c, "call_rag", dry_run,
           IF dry_run THEN NoArgs
           ELSE Args(WrapperModel, RagPrompt(context), <<query>>, WrapperMaxTokens))
  /\ IF dry_run
     THEN Finish(c, Ok(MockRag)) /\ UNCHANGED <<payload, posts>>
     ELSE LET t == EndpointTest(endpoint)
          IN  IF ~t.ok
              THEN Finish(c, RagResult(t)) /\ UNCHANGED <<payload, posts>>
              ELSE /\ Send(c, BuildPayload(t.v.b, WrapperModel, RagPrompt(context),
                                           <<query>>, WrapperMaxTokens))
                   /\ UNCHANGED result
  /\ UNCHANGED <<env, searches, resp, sres>>

\* key_ok: whether TavilyClient(api_key=...) accepts the key it is given.
call_tavily_web_search(c, query, dry_run, key_ok) ==
  /\ Idle(c)
  /\ Enter(c, "call_tavily_web_search", dry_run, NoArgs)
  /\ IF dry_run
     THEN Finish(c, Ok(MockSearch)) /\ UNCHANGED searches
     ELSE IF ~key_ok
     THEN Finish(c, SearchResult(Raise("MissingAPIKeyError"))) /\ UNCHANGED searches
     ELSE /\ pc' = [pc EXCEPT ![c] = "searching"]
          /\ searches' = [searches EXCEPT ![c] = @ + 1]
          /\ UNCHANGED result
  /\ UNCHANGED <<env, payload, posts, resp, sres>>

assess_confidence(c, response, dry_run) ==
  /\ Idle(c)
  /\ Enter(c, "assess_confidence", dry_run,
           IF dry_run THEN NoArgs
           ELSE Args(WrapperModel, AssessPrompt, AssessMessage(response),
                     WrapperMaxTokens))
  /\ IF dry_run
     THEN Finish(c, Ok(MockAssess)) /\ UNCHANGED <<payload, posts>>
     ELSE LET t == EndpointTest(endpoint)
          IN  IF ~t.ok
              THEN Finish(c, AssessResult(t)) /\ UNCHANGED <<payload, posts>>
              ELSE /\ Send(c, BuildPayload(t.v.b, WrapperModel, AssessPrompt,
                                           AssessMessage(response), WrapperMaxTokens))
                   /\ UNCHANGED result
  /\ UNCHANGED <<env, searches, resp, sres>>

synthesize_information(c, internal_response, web_results, dry_run) ==
  /\ Idle(c)
  /\ Enter(c, "synthesize_information", dry_run,
           IF dry_run THEN NoArgs
           ELSE Args(WrapperModel, SynthPrompt,
                     SynthMessage(internal_response, web_results), WrapperMaxTokens))
  /\ IF dry_run
     THEN Finish(c, Ok(MockSynthesis)) /\ UNCHANGED <<payload, posts>>
     ELSE LET t == EndpointTest(endpoint)
          IN  IF ~t.ok
              THEN Finish(c, SynthResult(t)) /\ UNCHANGED <<payload, posts>>
              ELSE /\ Send(c, BuildPayload(t.v.b, WrapperModel, SynthPrompt,
                                           SynthMessage(internal_response, web_results),
                                           WrapperMaxTokens))
                   /\ UNCHANGED result
  /\ UNCHANGED <<env, searches, resp, sres>>

\* The chat endpoint answers the request in flight.
HttpRespond(c) ==
  /\ pc[c] = "posted"
  /\ \E r \in Responses(profile) : resp' = [resp EXCEPT ![c] = r]
  /\ pc' = [pc EXCEPT ![c] = "responded"]
  /\ UNCHANGED <<env, op, dry, args, payload, posts, searches, sres, result, calls>>

\* The request in flight fails: requests.post raises.
HttpUnreachable(c) ==
  /\ pc[c] = "posted"
  /\ resp' = [resp EXCEPT ![c] = Unreachable]
  /\ pc' = [pc EXCEPT ![c] = "responded"]
  /\ UNCHANGED <<env, op, dry, args, payload, posts, searches, sres, result, calls>>

\* The search provider answers, or raises.
SearchRespond(c) ==
  /\ pc[c] = "searching"
  /\ \E o \in SearchOutcomes : sres' = [sres EXCEPT ![c] = o]
  /\ pc' = [pc EXCEPT ![c] = "searched"]
  /\ UNCHANGED <<env, op, dry, args, payload, posts, searches, resp, result, calls>>

Responded(c, o) == pc[c] = "responded" /\ op[c] = o

Keep == UNCHANGED <<env, op, dry, args, payload, posts, searches, resp, sres, calls>>

chat_request_return(c) ==
  /\ Responded(c, "chat_request")
  /\ Finish(c, ChatOutcome(resp[c]))
  /\ Keep

\* call_rag posting once more after a failed request.
call_rag_return_retry(c) ==
  /\ Responded(c, "call_rag")
  /\ IF ChatOutcome(resp[c]).ok \/ posts[c] >= 2
     THEN Finish(c, RagResult(ChatOutcome(resp[c]))) /\ UNCHANGED <<payload, posts>>
     ELSE Send(c, payload[c]) /\ UNCHANGED result
  /\ UNCHANGED <<env, op, dry, args, searches, resp, sres, calls>>

call_rag_return(c) ==
  /\ Responded(c, "call_rag")
  /\ Finish(c, RagResult(ChatOutcome(resp[c])))
  /\ Keep

assess_confidence_return(c) ==
  /\ Responded(c, "assess_confidence")
  /\ Finish(c, AssessResult(ChatOutcome(resp[c])))
  /\ Keep

synthesize_information_return(c) ==
  /\ Responded(c, "synthesize_information")
  /\ Finish(c, SynthResult(ChatOutcome(resp[c])))
  /\ Keep

call_tavily_web_search_return(c) ==
  /\ pc[c] = "searched"
  /\ Finish(c, SearchResult(sres[c]))
  /\ Keep

\* The caller takes the result; nothing of the invocation is kept.
Collect(c) ==
  /\ pc[c] = "done"
  /\ pc'       = [pc EXCEPT ![c] = "idle"]
  /\ op'       = [op EXCEPT ![c] = ""]
  /\ dry'      = [dry EXCEPT ![c] = FALSE]
  /\ args'     = [args EXCEPT ![c] = NoArgs]
  /\ payload'  = [payload EXCEPT ![c] = NoPayload]
  /\ posts'    = [posts EXCEPT ![c] = 0]
  /\ searches' = [searches EXCEPT ![c] = 0]
  /\ resp'     = [resp EXCEPT ![c] = NoResp]
  /\ sres'     = [sres EXCEPT ![c] = NoResult]
  /\ result'   = [result EXCEPT ![c] = NoResult]
  /\ UNCHANGED <<env, calls>>

Next ==
  \/ \E c \in Callers, m \in ChatModels, mt \in ChatMaxTokens, d \in BOOLEAN :
       chat_request(c, m, <<"system prompt">>, <<"user message">>, mt, d)
  \/ \E c \in Callers, q \in Queries, x \in Contexts, d \in BOOLEAN :
       call_rag(c, q, x, d)
  \/ \E c \in Callers, q \in Queries, d \in BOOLEAN, k \in BOOLEAN :
       call_tavily_web_search(c, q, d, k)
  \/ \E c \in Callers, r \in Queries, d \in BOOLEAN :
       assess_confidence(c, r, d)
  \/ \E c \in Callers, i \in Queries, w \in Contexts, d \in BOOLEAN :
       synthesize_information(c, i, w, d)
  \/ \E c \in Callers : HttpRespond(c)
  \/ \E c \in Callers : HttpUnreachable(c)
  \/ \E c \in Callers : SearchRespond(c)
  \/ \E c \in Callers : chat_request_return(c)
  \/ \E c \in Callers : call_rag_return(c)
  \/ \E c \in Callers : assess_confidence_return(c)
  \/ \E c \in Callers : synthesize_information_return(c)
  \/ \E c \in Callers : call_tavily_web_search_return(c)
  \/ \E c \in Callers : Collect(c)

Spec     == Init /\ [][Next]_vars
ConcSpec == ConcInit /\ [][Next]_vars

\* ------------------------------------------------------------ claims

IsDone(c)     == pc[c] = "done"
Wrappers      == {"call_rag", "call_tavily_web_search", "assess_confidence",
                  "synthesize_information"}
FourKeys      == {"model", "messages", "max_tokens", "temperature"}

MockOf(o) ==
  CASE o = "call_rag"               -> MockRag
    [] o = "call_tavily_web_search" -> MockSearch
    [] o = "assess_confidence"      -> MockAssess
    [] OTHER                        -> MockSynthesis

\* The request of caller c failed: nothing could be sent or came back, or the answer
\* was an HTTP error, or its body was not of the expected structure.
TransportFailed(c) ==
  \/ posts[c] = 0
  \/ resp[c] = Unreachable
  \/ resp[c].status \in 400..599
  \/ resp[c].shape \in MalformedShapes

\* The request of caller c was answered with content.
TransportReturned(c) ==
  /\ posts[c] = 1
  /\ resp[c] # Unreachable
  /\ resp[c].status \notin 400..599
  /\ resp[c].shape = "ok"

\* C1, as stated: every operation invoked with dry-run enabled, chat_request
\* among them, makes no network call and returns its mock value.
C1_AllFiveDryRun ==
  \A c \in Callers :
    dry[c] =>
      /\ posts[c] = 0 /\ searches[c] = 0
      /\ IsDone(c) => /\ result[c].ok
                      /\ op[c] \in Wrappers => result[c].v = MockOf(op[c])

\* C1, amended: the four operations that take a dry-run flag make no network
\* call and return their mock values when it is set; chat_request takes no
\* such flag, and a call that passes one raises TypeError (nothing is sent,
\* nothing is returned).
C1_WrappersDryRun ==
  \A c \in Callers :
    dry[c] =>
      /\ posts[c] = 0 /\ searches[c] = 0 /\ payload[c] = NoPayload
      /\ pc[c] \in {"idle", "done"}
      /\ IsDone(c) /\ op[c] \in Wrappers => result[c] = Ok(MockOf(op[c]))
      /\ IsDone(c) /\ op[c] = "chat_request" => result[c] = Raise("TypeError")

\* A dry run of call_rag against a configured endpoint has returned.
C1_Witness ==
  \E c \in Callers :
    /\ IsDone(c) /\ dry[c] /\ op[c] = "call_rag"
    /\ endpoint.t = "str"
    /\ result[c] = Ok(MockRag)

C3_Non2xxRaises ==
  \A c \in Callers :
    IsDone(c) /\ op[c] = "chat_request" /\ posts[c] = 1
      /\ resp[c] # Unreachable =>
      /\ resp[c].status \notin 200..299 =>
           ~result[c].ok /\ result[c].exc = "HTTPError"
           /\ result[c].status = resp[c].status
      /\ resp[c].status \in 200..299 /\ resp[c].shape \in MalformedShapes =>
           ~result[c].ok

\* C3, amended: a 4xx or 5xx answer ends chat_request in an HTTP error
\* carrying that status, whatever the body; an answer with any other status
\* whose body is malformed or lacks choices[0].message.content ends it in a
\* structural error; text is returned only from a well-formed body of an
\* answer that is not 4xx or 5xx.
C3_ErrorStatusRaises ==
  \A c \in Callers :
    IsDone(c) /\ op[c] = "chat_request" /\ posts[c] = 1
      /\ resp[c] # Unreachable =>
      /\ resp[c].status \in 400..599 =>
           ~result[c].ok /\ result[c].exc = "HTTPError"
           /\ result[c].status = resp[c].status
      /\ resp[c].status \notin 400..599 /\ resp[c].shape \in MalformedShapes =>
           ~result[c].ok /\ result[c].exc # "HTTPError"
      /\ result[c].ok => resp[c].shape = "ok" /\ result[c].v = resp[c].content

\* chat_request raised the HTTP error of a 503 answer with a well-formed body.
C3_Witness ==
  \E c \in Callers :
    /\ IsDone(c) /\ op[c] = "chat_request"
    /\ resp[c].status = 503 /\ resp[c].shape = "ok"
    /\ result[c] = RaiseHTTP(503)

\* C4: without dry-run, no wrapper lets an exception reach its caller: when
\* the underlying call fails call_rag and call_tavily_web_search return the
\* empty string and synthesize_information returns "Error synthesizing
\* information", which it also returns when stripping the wrapper raises.
C4_WrappersSwallow ==
  \A c \in Callers :
    IsDone(c) /\ ~dry[c] /\ op[c] \in Wrappers =>
      /\ result[c].ok
      /\ op[c] = "call_rag" /\ TransportFailed(c) => result[c].v = EmptyStr
      /\ op[c] = "call_tavily_web_search" /\ (searches[c] = 0 \/ ~sres[c].ok) =>
           result[c].v = EmptyStr
      /\ op[c] = "synthesize_information" /\ TransportFailed(c) =>
           result[c].v = ErrorText
      /\ op[c] = "synthesize_information" /\ ~TransportFailed(c)
           /\ resp[c].content.t \notin {"str", "list"} => result[c].v = ErrorText
      /\ op[c] = "synthesize_information" /\ ~TransportFailed(c)
           /\ resp[c].content = PyList(<<>>) => result[c].v = ErrorText

\* synthesize_information got 'TextBlock(type='text')', which has no text='
\* to split at, and returned the error text.
C4_Witness ==
  \E c \in Callers :
    /\ IsDone(c) /\ ~dry[c] /\ op[c] = "synthesize_information"
    /\ TransportReturned(c)
    /\ resp[c].content = PyStr(<<TB, "type=", SQ, "text", SQ, RP>>)
    /\ result[c] = Ok(ErrorText)

\* C5: when the model text is a valid JSON object with a numeric
\* confidence_score s, assess_confidence returns s > 0.7; when the text is
\* unparsable and holds no confidence_score key, it returns false.
C5_ValidJsonThreshold ==
  \A c \in Callers :
    IsDone(c) /\ op[c] = "assess_confidence" /\ TransportReturned(c)
      /\ resp[c].content.t = "str" =>
        LET text == resp[c].content.s
            p    == JsonLoads(text)
        IN  /\ p.ok /\ p.kind = "object" /\ p.has /\ p.sk = "number" =>
                 result[c] = Ok(PyBool(p.sn > 70))
            /\ ~p.ok /\ ~Contains(text, ScoreKey) => result[c] = Ok(PyBool(FALSE))

\* C6: for every valid JSON object J with numeric score s, the result on
\* TextBlock(text='J', type='text') is s > 0.7.
C6_WrappedJsonThreshold ==
  \A c \in Callers :
    IsDone(c) /\ op[c] = "assess_confidence" /\ TransportReturned(c)
      /\ resp[c].content.t = "str" =>
        \A J \in Objects :
          resp[c].content.s = Wrap(J) =>
            result[c] = Ok(PyBool(JsonLoads(J).sn > 70))

\* C7: assess_confidence never raises and always returns a boolean; it
\* returns false when the transport failed, when the value is an empty list
\* or not text, and when the cleaned text is not a JSON object and holds no
\* confidence_score key.
C7_AssessNeverRaises ==
  \A c \in Callers :
    IsDone(c) /\ ~dry[c] /\ op[c] = "assess_confidence" =>
      /\ result[c].ok /\ result[c].v.t = "bool"
      /\ result[c].v = PyBool(result[c].v.b)
      /\ TransportFailed(c) => ~result[c].v.b
      /\ ~TransportFailed(c) /\ resp[c].content.t \in {"none", "dict"} =>
           ~result[c].v.b
      /\ ~TransportFailed(c) /\ resp[c].content = PyList(<<>>) => ~result[c].v.b
      /\ ~TransportFailed(c) /\ resp[c].content.t = "str"
           /\ ~Contains(resp[c].content.s, ScoreKey) => ~result[c].v.b

\* assess_confidence got 'TextBlock(text="x")', whose marker is not followed
\* by the delimiter text=', and returned false.
C7_Witness ==
  \E c \in Callers :
    /\ IsDone(c) /\ ~dry[c] /\ op[c] = "assess_confidence"
    /\ TransportReturned(c)
    /\ resp[c].content = PyStr(<<TB, TEQ, DQ, "x", DQ, RP>>)
    /\ result[c] = Ok(PyBool(FALSE))

\* C8: for every list or string the transport returns and both functions
\* manage to clean, the text synthesize_information returns is the cleaned
\* text assess_confidence would parse for the same value.
C8_SameStripping ==
  \A c \in Callers :
    IsDone(c) /\ op[c] = "synthesize_information" /\ TransportReturned(c)
      /\ resp[c].content.t \in {"str", "list"} =>
        LET a == AssessClean(resp[c].content)
        IN  a.ok /\ result[c].v # ErrorText => result[c] = Ok(a.v)

\* C9: an invocation posts at most once and searches at most once, never
\* both; an operation whose request failed has ended with one request sent;
\* a step of one caller changes nothing of another, the configuration never
\* changes, and an idle caller holds nothing of its earlier invocations.
C9_State ==
  \A c \in Callers :
    /\ posts[c] \in {0, 1} /\ searches[c] \in {0, 1}
    /\ posts[c] + searches[c] <= 1
    /\ op[c] = "call_tavily_web_search" => posts[c] = 0
    /\ op[c] # "call_tavily_web_search" => searches[c] = 0
    /\ pc[c] \in {"posted", "responded"} => posts[c] = 1
    /\ pc[c] \in {"searching", "searched"} => searches[c] = 1
    /\ pc[c] = "idle" =>
         /\ op[c] = "" /\ ~dry[c] /\ args[c] = NoArgs /\ payload[c] = NoPayload
         /\ posts[c] = 0 /\ searches[c] = 0 /\ resp[c] = NoResp
         /\ sres[c] = NoResult /\ result[c] = NoResult

LocalsOf(c) ==
  <<pc[c], op[c], dry[c], args[c], payload[c], posts[c], searches[c], resp[c],
    sres[c], result[c], calls[c]>>

C9_Step ==
  /\ env' = env
  /\ \A c \in Callers : posts'[c] > posts[c] => pc[c] = "idle"
  /\ \A c \in Callers : searches'[c] > searches[c] => pc[c] = "idle"
  /\ \A c, d \in Callers :
       c # d /\ LocalsOf(c)' # LocalsOf(c) => LocalsOf(d)' = LocalsOf(d)

\* C9: every state is a single-round-trip state (C9_State) and every step
\* is a step of one caller that sends at most its first request (C9_Step).
C9_SingleRoundTrip == [](C9_State) /\ [][C9_Step]_vars

\* One caller's call_rag has ended after a 503 with one request sent and the
\* empty string returned, while the other caller's request is in flight.
C9_Witness ==
  \E c, d \in Callers :
    /\ c # d
    /\ IsDone(c) /\ op[c] = "call_rag" /\ resp[c].status = 503
    /\ posts[c] = 1 /\ result[c] = Ok(EmptyStr)
    /\ pc[d] = "posted" /\ calls[d] = 2

\* The numeral that follows the first confidence_score key of s, after
\* blanks; "" when none does.
NumeralAfterKey(s) ==
  LET i == Find(s, ScoreKey)
      j == SkipWs(s, i + 1)
  IN  IF i # 0 /\ j <= Len(s) /\ s[j] \in Numerals THEN s[j] ELSE ""

\* C10: when strict parsing of the cleaned text fails or finds no
\* confidence_score, and the text holds the key followed by a number s,
\* assess_confidence returns s > 0.7, wherever the key stands.
C10_FallbackAnywhere ==
  \A c \in Callers :
    IsDone(c) /\ op[c] = "assess_confidence" /\ TransportReturned(c) =>
      LET e == AssessClean(resp[c].content)
      IN  e.ok /\ e.v.t = "str"
            /\ ~(JsonLoads(e.v.s).ok /\ JsonLoads(e.v.s).kind = "object"
                 /\ JsonLoads(e.v.s).has)
            /\ ~(JsonLoads(e.v.s).ok /\ JsonLoads(e.v.s).kind # "object")
            /\ NumeralAfterKey(e.v.s) # "" =>
          result[c] = Ok(PyBool(NumVal(NumeralAfterKey(e.v.s)) > 70))

====
